---------------------------- MODULE Spec2Model ----------------------------
(***************************************************************************)
(* A model of comfy_annotations.py: the execution wrapper's retry loop,    *)
(* the tensor verifier, the type registry, the node registry with its      *)
(* initialization window, the list-mode wrapper, the dynamic setter        *)
(* generator and the hot-reload manager.                                   *)
(*                                                                         *)
(* Every component has its own specification (SpecRetry, SpecVerify, ...): *)
(* the variables of the other components stay at their initial value.      *)
(***************************************************************************)
EXTENDS Integers, Sequences, FiniteSets, TLC

(***************************************************************************)
(* Bounds of the model.                                                    *)
(***************************************************************************)
\* largest configured value of max_tries that is explored
MaxTriesBound == 3
\* largest number of declared return slots / returned tuple length
MaxReturns == 2
\* number of classes defined by the modules that use the library
MaxUserClasses == 2
\* number of decorations (applications of ComfyFunc) in one run
MaxDecorations == 3
\* longest list the host passes for one input
MaxListLen == 2

(***************************************************************************)
(* Python values.  Every value is a record with a kind.                    *)
(***************************************************************************)
NoneV == [kind |-> "none"]

IntV(n) == [kind |-> "int", val |-> n]

\* a torch.Tensor: its shape, its smallest and largest element, its device
TensorV(shape, lo, hi, device) ==
    [kind |-> "tensor", shape |-> shape, lo |-> lo, hi |-> hi, device |-> device]

ListV(items) == [kind |-> "list", items |-> items]

\* the sequences over S of length at most n
SeqsUpTo(S, n) == UNION {[1..k -> S] : k \in 0..n}

\* an optional keyword argument of python: None, or a value
NoneOpt == [some |-> FALSE]

Some(v) == [some |-> TRUE, val |-> v]

VARIABLES
    \* ---- process-wide configuration
    max_tries,                \* the global max_tries
    process_exception_logic,  \* TRUE when a failure hook is configured
    verify_tensors,           \* the global verify_tensors
    \* ---- one run of _call_function_and_verify_result
    adjusted_return_types,    \* the declared return tags of the node
    pc,                       \* "idle", "loop", "returned", "raised"
    try_count,
    last,                     \* what the implementation did on the latest attempt
    outcome,                  \* the returned tuple or the raised exception
    impl_calls,               \* number of calls of func
    impl_raises,              \* attempts on which func itself raised
    other_fails,              \* attempts on which the checks after func raised
    hook_calls,               \* number of calls of process_exception_logic
    root_handlers,            \* number of BufferHandlers attached to the root logger
    sys_stdout,               \* the object bound to sys.stdout
    stdout_before,            \* sys.stdout when the run started
    \* ---- the type registry
    _ANNOTATION_TO_COMFYUI_TYPE,
    _SHOULD_AUTOCONVERT,
    _DEFAULT_FORCE_INPUT,
    first_call,               \* history: the arguments of the first register_type call per key
    last_call,                \* history: the latest register_type call
    \* ---- the node registry
    already_initialized,
    NODE_CLASS_MAPPINGS,      \* workflow name -> class object
    NODE_DISPLAY_NAME_MAPPINGS, \* workflow name -> display name
    class_attrs,              \* class object -> the node attributes set on it
    n_decorations,            \* number of decorations made so far
    last_reg,                 \* history: the latest decoration and how it ended
    \* ---- one call of a node's wrapper, up to the call of the implementation
    parameters,               \* the parameters of the decorated function
    kwargs,                   \* the keyword arguments of the host, in call order
    cuda_available,           \* torch.cuda.is_available()
    wrapper_pc,               \* "ready", "called" (the implementation), "raised"
    impl_kwargs,              \* the keyword arguments handed to the implementation
    wrapper_error,            \* the exception the wrapper raised
    \* ---- one application of the tensor verifier
    checked_value,            \* the value handed to the verifier
    checked_as,               \* "none", "input" or "output"
    verify_pc,                \* "ready", "passed", "raised"
    \* ---- register_setter and the adapter it registers
    setter_cls,               \* the class handed to register_setter
    properties,               \* the properties of the class, in the order of dir()
    extra_imports,            \* the argument extra_imports
    setter_pc,                \* "ready", "registered", "raised"
    adapter,                  \* the input maps of the registered adapter
    objects_made,             \* how many objects of the class were constructed
    setter_result,            \* the latest call of the adapter and what it gave
    \* ---- the hot-reload manager
    reload_modules,           \* the global reload_modules
    mtime,                    \* os.path.getmtime of every module's file
    loaded_gen,               \* how many times every module was reloaded
    module_reload_times,      \* the global module_reload_times
    func_dict,                \* the global func_dict
    last_resolve,             \* history: the latest _maybe_reload_module call
    last_refresh,             \* history: per function, the implementation its
                              \* latest reload gave, while the file is unmodified
    \* ---- the signature introspector applied to one function
    signature,                \* the parameters of the function
    inferred,                 \* the input maps inferred from them
    \* ---- two wrapper invocations in different threads
    thread_pc,                \* per thread: "idle", "handler", "running", "cleanup", "done"
    handlers,                 \* the threads whose BufferHandler is on the root logger
    stdout_tees,              \* the threads whose buffer sys.stdout writes to, <<>> when
                              \* sys.stdout is sys.__stdout__
    buffers,                  \* per thread, what its buffer received: (source, channel)
    last_event                \* history: the latest step of a thread

retryVars == <<max_tries, process_exception_logic, verify_tensors,
               adjusted_return_types, pc, try_count, last, outcome, impl_calls,
               impl_raises, other_fails, hook_calls, root_handlers, sys_stdout,
               stdout_before>>

typeVars == <<_ANNOTATION_TO_COMFYUI_TYPE, _SHOULD_AUTOCONVERT, _DEFAULT_FORCE_INPUT,
              first_call, last_call>>

regVars == <<already_initialized, NODE_CLASS_MAPPINGS, NODE_DISPLAY_NAME_MAPPINGS,
             class_attrs, n_decorations, last_reg>>

wrapperVars == <<parameters, kwargs, cuda_available, wrapper_pc, impl_kwargs, wrapper_error>>

verifyVars == <<checked_value, checked_as, verify_pc>>

setterVars == <<setter_cls, properties, extra_imports, setter_pc, adapter, objects_made,
                setter_result>>

reloadVars == <<reload_modules, mtime, loaded_gen, module_reload_times, func_dict,
                last_resolve, last_refresh>>

laterVars == <<signature, inferred, thread_pc, handlers, stdout_tees, buffers, last_event>>

otherVars == <<verifyVars, setterVars, reloadVars, laterVars>>

vars == <<retryVars, typeVars, regVars, wrapperVars, otherVars>>

(***************************************************************************)
(* The type registry: register_type and the registrations of lines 200-207.*)
(* A class is known by its module and its qualified name, which is all     *)
(* that _get_fully_qualified_name reads of it.                             *)
(***************************************************************************)
Class(module, qualname) == [module |-> module, qualname |-> qualname]

MaskTensor == Class("comfy_annotations", "MaskTensor")

IntClass == Class("builtins", "int")

BoolClass == Class("builtins", "bool")

any_type == "*"

UserClassNames == <<"UserA", "UserB", "UserC", "UserD">>

UserClass(i) == Class("user_module", UserClassNames[i])

UserClasses == {UserClass(i) : i \in 1..MaxUserClasses}

\* f"{cls.__module__}.{cls.__qualname__}"
_get_fully_qualified_name(cls) == <<cls.module, ".", cls.qualname>>

Registry(types, autoconvert, force_input) ==
    [types |-> types, autoconvert |-> autoconvert, force_input |-> force_input]

register_type_overwrite(reg, cls, name, should_autoconvert, is_auto_register, force_input) ==
    LET key == _get_fully_qualified_name(cls)
    IN  Registry([k \in DOMAIN reg.types \cup {key} |->
                      IF k = key THEN name ELSE reg.types[k]],
                 [k \in DOMAIN reg.autoconvert \cup {key} |->
                      IF k = key THEN should_autoconvert ELSE reg.autoconvert[k]],
                 [k \in DOMAIN reg.force_input \cup {key} |->
                      IF k = key THEN force_input ELSE reg.force_input[k]])

\* lines 173-197; is_auto_register is not read
register_type(reg, cls, name, should_autoconvert, is_auto_register, force_input) ==
    LET key == _get_fully_qualified_name(cls)
    IN  IF key \in DOMAIN reg.types THEN reg
        ELSE Registry([k \in DOMAIN reg.types \cup {key} |->
                           IF k = key THEN name ELSE reg.types[k]],
                      [k \in DOMAIN reg.autoconvert \cup {key} |->
                           IF k = key THEN should_autoconvert ELSE reg.autoconvert[k]],
                      [k \in DOMAIN reg.force_input \cup {key} |->
                           IF k = key THEN force_input ELSE reg.force_input[k]])

\* lines 166-168: the three maps as the module creates them; the key "str" of
\* _SHOULD_AUTOCONVERT is no fully qualified name
EmptyRegistry ==
    Registry([k \in {} |-> "none"], [k \in {<<"str">>} |-> TRUE], [k \in {} |-> FALSE])

\* lines 200-207: the registrations made when the module is loaded
BuiltinRegistrations ==
    << <<Class("torch", "Tensor"), "TENSOR">>,
       <<Class("comfy_annotations", "ImageTensor"), "IMAGE">>,
       <<MaskTensor, "MASK">>,
       <<IntClass, "INT">>,
       <<Class("builtins", "float"), "FLOAT">>,
       <<Class("builtins", "str"), "STRING">>,
       <<BoolClass, "BOOLEAN">>,
       <<Class("comfy_annotations", "AnyType"), any_type>> >>

RECURSIVE RegisterAll(_, _)
RegisterAll(reg, calls) ==
    IF calls = <<>> THEN reg
    ELSE RegisterAll(register_type(reg, Head(calls)[1], Head(calls)[2], FALSE, FALSE, FALSE),
                     Tail(calls))

LoadedRegistry == RegisterAll(EmptyRegistry, BuiltinRegistrations)

CurrentRegistry ==
    Registry(_ANNOTATION_TO_COMFYUI_TYPE, _SHOULD_AUTOCONVERT, _DEFAULT_FORCE_INPUT)

CallArgs(name, should_autoconvert, force_input) ==
    [name |-> name, should_autoconvert |-> should_autoconvert, force_input |-> force_input]

TypesInit ==
    /\ _ANNOTATION_TO_COMFYUI_TYPE = LoadedRegistry.types
    /\ _SHOULD_AUTOCONVERT = LoadedRegistry.autoconvert
    /\ _DEFAULT_FORCE_INPUT = LoadedRegistry.force_input
    /\ first_call = [i \in 1..Len(BuiltinRegistrations) |->
                        [key |-> _get_fully_qualified_name(BuiltinRegistrations[i][1]),
                         args |-> CallArgs(BuiltinRegistrations[i][2], FALSE, FALSE)]]
    /\ last_call = [known |-> FALSE, key |-> <<>>, args |-> CallArgs("none", FALSE, FALSE)]

HostTags == {"TENSOR", "CUSTOM", "OTHER"}

RegistrableClasses == UserClasses \cup {IntClass, MaskTensor}

\* a call of register_type by a module that uses the library
RegisterType(cls, name, should_autoconvert, is_auto_register, force_input) ==
    LET reg == register_type(CurrentRegistry, cls, name, should_autoconvert,
                             is_auto_register, force_input)
        key == _get_fully_qualified_name(cls)
        known == \E i \in 1..Len(first_call) : first_call[i].key = key
        args == CallArgs(name, should_autoconvert, force_input)
    IN  /\ _ANNOTATION_TO_COMFYUI_TYPE' = reg.types
        /\ _SHOULD_AUTOCONVERT' = reg.autoconvert
        /\ _DEFAULT_FORCE_INPUT' = reg.force_input
        /\ first_call' = IF known THEN first_call
                         ELSE Append(first_call, [key |-> key, args |-> args])
        /\ last_call' = [known |-> known, key |-> key, args |-> args]
        /\ UNCHANGED <<retryVars, regVars, wrapperVars, otherVars>>

TypesNext ==
    \E cls \in RegistrableClasses, name \in HostTags,
       should_autoconvert \in BOOLEAN, is_auto_register \in BOOLEAN, force_input \in BOOLEAN :
        RegisterType(cls, name, should_autoconvert, is_auto_register, force_input)

(***************************************************************************)
(* Claims about the type registry, checked under SpecTypes.                *)
(***************************************************************************)
\* C4: for every type that register_type was ever called for, the stored host
\* tag, autoconvert flag and force-input flag are the arguments of the first
\* call made for it.
C4_FirstWriteWins ==
    \A i \in 1..Len(first_call) :
        LET key == first_call[i].key
        IN  /\ key \in DOMAIN _ANNOTATION_TO_COMFYUI_TYPE
            /\ key \in DOMAIN _SHOULD_AUTOCONVERT
            /\ key \in DOMAIN _DEFAULT_FORCE_INPUT
            /\ _ANNOTATION_TO_COMFYUI_TYPE[key] = first_call[i].args.name
            /\ _SHOULD_AUTOCONVERT[key] = first_call[i].args.should_autoconvert
            /\ _DEFAULT_FORCE_INPUT[key] = first_call[i].args.force_input

\* a type has just been registered again with another name and other flags
C4_Witness ==
    /\ last_call.known
    /\ last_call.key = _get_fully_qualified_name(UserClass(1))
    /\ last_call.args.name # _ANNOTATION_TO_COMFYUI_TYPE[last_call.key]
    /\ last_call.args.should_autoconvert # _SHOULD_AUTOCONVERT[last_call.key]
    /\ last_call.args.force_input # _DEFAULT_FORCE_INPUT[last_call.key]

(***************************************************************************)
(* The node registry: ComfyFunc.decorator and _create_comfy_node, and the  *)
(* wrapper's closing of the initialization window.                         *)
(*                                                                         *)
(* A function name is the sequence of its parts between underscores; a     *)
(* workflow name is a sequence of words, a display name a sequence of      *)
(* words and spaces.                                                       *)
(***************************************************************************)
FuncNames == {<<"my", "node">>, <<"my", "", "node">>, <<"other">>}

\* str.title() on one part of a function name
Title(part) ==
    CASE part = "my" -> "My"
      [] part = "node" -> "Node"
      [] part = "other" -> "Other"
      [] part = "" -> ""

\* line 519
NameParts(name) == [i \in 1..Len(name) |-> Title(name[i])]

RECURSIVE Join(_, _)
\* sep.join(parts); the empty string adds nothing to the text
Join(sep, parts) ==
    IF parts = <<>> THEN <<>>
    ELSE LET rest == IF Len(parts) = 1 THEN <<>>
                     ELSE (IF sep = "" THEN <<>> ELSE <<sep>>) \o Join(sep, Tail(parts))
         IN  (IF Head(parts) = "" THEN <<>> ELSE <<Head(parts)>>) \o rest

NoOwner == [kind |-> "none"]

OwnerClass(n) == [kind |-> "owner", name |-> n]

SynthClass(serial) == [kind |-> "type", serial |-> serial]

Owners == {OwnerClass("NodeHolder")}

\* the functions that get decorated: a name, and the class _get_node_class finds
Funcs == [name : FuncNames, node_class : {NoOwner} \cup Owners]

ExplicitWorkflowNames == {<<"My", "Node">>}

ExplicitDisplayNames == {<<"My", " ", "Node">>}

Colors == {"None", "#A0B1C2", "red"}

\* len(return_names) and len(adjusted_return_types) of the decorations explored
ReturnNameCounts == {0, 1, 2}

ReturnTypeCounts == {1}

\* lines 788-791: the checks of a color
ColorOk(color) == color = "None" \/ color = "#A0B1C2"

\* lines 511-514: "if return_names: assert len(return_names) == len(adjusted_return_types)"
NamesMismatch(return_names, n_types) ==
    return_names.some /\ return_names.val # 0 /\ return_names.val # n_types

\* line 826: the checks are made only during the initialization window
WindowOpen_always == TRUE

WindowOpen == ~already_initialized

Values(f) == {f[k] : k \in DOMAIN f}

\* the check of the display name is left out
UniquenessCheck_noDisplay(workflow_name, display_name, node_class) ==
    IF ~WindowOpen THEN "ok"
    ELSE IF workflow_name \in DOMAIN NODE_CLASS_MAPPINGS THEN "duplicate workflow name"
    ELSE IF node_class \in Values(NODE_CLASS_MAPPINGS) THEN "duplicate class"
    ELSE "ok"

\* lines 826-835: the assertion that fails, "ok" when none does
UniquenessCheck(workflow_name, display_name, node_class) ==
    IF ~WindowOpen THEN "ok"
    ELSE IF workflow_name \in DOMAIN NODE_CLASS_MAPPINGS THEN "duplicate workflow name"
    ELSE IF display_name \in Values(NODE_DISPLAY_NAME_MAPPINGS) THEN "duplicate display name"
    ELSE IF node_class \in Values(NODE_CLASS_MAPPINGS) THEN "duplicate class"
    ELSE "ok"

\* a decoration that fails is reported as registered
DecorationResult_neverFails(func, display_name, workflow_name, return_names, n_types, color) ==
    "ok"

\* how a decoration ends: the error raised, "ok" when the function is registered
DecorationResult(func, display_name, workflow_name, return_names, n_types, color) ==
    IF NamesMismatch(return_names, n_types) THEN "return names mismatch"
    ELSE IF ~ColorOk(color) THEN "bad color"
    ELSE UniquenessCheck(workflow_name, display_name, func.node_class)

RegistryInit ==
    /\ already_initialized = FALSE
    /\ NODE_CLASS_MAPPINGS = [k \in {} |-> NoOwner]
    /\ NODE_DISPLAY_NAME_MAPPINGS = [k \in {} |-> <<>>]
    /\ class_attrs = [c \in Owners |-> [set |-> FALSE]]
    /\ n_decorations = 0
    /\ last_reg = [result |-> "none"]

Put(f, k, v) == [x \in DOMAIN f \cup {k} |-> IF x = k THEN v ELSE f[x]]

\* lines 476-629 with _create_comfy_node (lines 762-844): what ComfyFunc(...)(func)
\* does to the registries
DecorateEffect(func, display_opt, workflow_opt, return_names, n_types, color) ==
    /\ n_decorations < MaxDecorations
    /\ n_decorations' = n_decorations + 1
    /\ LET name_parts    == NameParts(func.name)
           display_name  == IF display_opt.some THEN display_opt.val ELSE Join(" ", name_parts)
           workflow_name == IF workflow_opt.some THEN workflow_opt.val ELSE Join("", name_parts)
           result        == DecorationResult(func, display_name, workflow_name,
                                             return_names, n_types, color)
           \* of the class dictionary, the wrapped function and which decoration made it
           class_dict    == [set |-> TRUE, func |-> func, serial |-> n_decorations + 1]
           node_class    == IF func.node_class # NoOwner THEN func.node_class
                            ELSE SynthClass(n_decorations + 1)
       IN  /\ last_reg' = [result |-> result, serial |-> n_decorations + 1, func |-> func,
                           workflow_name |-> workflow_name, display_name |-> display_name,
                           node_class |-> node_class,
                           window |-> ~already_initialized,
                           color |-> color,
                           names_mismatch |-> NamesMismatch(return_names, n_types),
                           id_known |-> workflow_name \in DOMAIN NODE_CLASS_MAPPINGS]
           /\ IF result = "ok"
              THEN /\ class_attrs' = Put(class_attrs, node_class, class_dict)
                   /\ NODE_CLASS_MAPPINGS' = Put(NODE_CLASS_MAPPINGS, workflow_name, node_class)
                   /\ NODE_DISPLAY_NAME_MAPPINGS' =
                          Put(NODE_DISPLAY_NAME_MAPPINGS, workflow_name, display_name)
              ELSE UNCHANGED <<class_attrs, NODE_CLASS_MAPPINGS, NODE_DISPLAY_NAME_MAPPINGS>>

\* a module that uses the library decorates one of its functions
Decorate(func, display_opt, workflow_opt, return_names, n_types, color) ==
    /\ DecorateEffect(func, display_opt, workflow_opt, return_names, n_types, color)
    /\ UNCHANGED <<already_initialized, retryVars, typeVars, wrapperVars, otherVars>>

\* lines 523-589: the host calls the wrapper of a registered node; the wrapper
\* raises at lines 539-577 for inputs it rejects, before it reaches line 580
InvokeWrapper(workflow_name, inputs_accepted) ==
    /\ workflow_name \in DOMAIN NODE_CLASS_MAPPINGS
    /\ already_initialized' = (IF inputs_accepted THEN TRUE ELSE already_initialized)
    /\ UNCHANGED <<NODE_CLASS_MAPPINGS, NODE_DISPLAY_NAME_MAPPINGS, class_attrs,
                   n_decorations, last_reg, retryVars, typeVars, wrapperVars, otherVars>>

RegistryNext ==
    \/ \E func \in Funcs,
          display_opt \in {NoneOpt} \cup {Some(d) : d \in ExplicitDisplayNames},
          workflow_opt \in {NoneOpt} \cup {Some(w) : w \in ExplicitWorkflowNames},
          return_names \in {NoneOpt} \cup {Some(k) : k \in ReturnNameCounts},
          n_types \in ReturnTypeCounts,
          color \in Colors :
            Decorate(func, display_opt, workflow_opt, return_names, n_types, color)
    \/ \E workflow_name \in DOMAIN NODE_CLASS_MAPPINGS, inputs_accepted \in BOOLEAN :
            InvokeWrapper(workflow_name, inputs_accepted)

(***************************************************************************)
(* Claims about the node registry, checked under SpecRegistry.             *)
(***************************************************************************)
\* a decoration that fails no check other than the uniqueness checks
WellFormed(reg) == reg.result \notin {"none", "return names mismatch", "bad color"}

\* C3: a decoration whose workflow name is already registered raises the
\* duplicate-identifier error while already_initialized is false; once a
\* wrapper has set already_initialized it raises nothing and the registry
\* entries of that workflow name are those of the later decoration; and
\* already_initialized, once true, stays true.
C3_WindowState ==
    (WellFormed(last_reg) /\ last_reg.id_known)
    => IF last_reg.window
       THEN last_reg.result = "duplicate workflow name"
       ELSE /\ last_reg.result = "ok"
            /\ NODE_CLASS_MAPPINGS[last_reg.workflow_name] = last_reg.node_class
            /\ NODE_DISPLAY_NAME_MAPPINGS[last_reg.workflow_name] = last_reg.display_name
            /\ class_attrs[last_reg.node_class].serial = last_reg.serial
            /\ class_attrs[last_reg.node_class].func = last_reg.func

C3_InitializationWindow ==
    /\ []C3_WindowState
    /\ [][already_initialized => already_initialized']_vars

\* a registered workflow name was registered again after the window closed,
\* by another function and under another display name
C3_Witness ==
    /\ last_reg.result = "ok"
    /\ last_reg.id_known
    /\ ~last_reg.window
    /\ last_reg.serial = 3
    /\ last_reg.func.name = <<"my", "", "node">>
    /\ last_reg.display_name = <<"My", " ", " ", "Node">>

C3_WitnessDuplicate ==
    /\ last_reg.result = "duplicate workflow name"
    /\ last_reg.window
    /\ last_reg.func.name = <<"my", "", "node">>
    /\ last_reg.display_name \notin Values(NODE_DISPLAY_NAME_MAPPINGS)

\* C11: while the initialization window is open, the two mappings have the
\* same workflow identifiers, no two identifiers have the same display name,
\* and no class is the value of two identifiers.
C11_UniqueWhileWindowOpen ==
    ~already_initialized =>
        /\ DOMAIN NODE_CLASS_MAPPINGS = DOMAIN NODE_DISPLAY_NAME_MAPPINGS
        /\ \A w1, w2 \in DOMAIN NODE_CLASS_MAPPINGS :
               w1 # w2 => /\ NODE_DISPLAY_NAME_MAPPINGS[w1] # NODE_DISPLAY_NAME_MAPPINGS[w2]
                          /\ NODE_CLASS_MAPPINGS[w1] # NODE_CLASS_MAPPINGS[w2]

\* with the window open and two nodes registered, one of them a method of an
\* owning class, a third decoration has just been refused
C11_Witness ==
    /\ ~already_initialized
    /\ Cardinality(DOMAIN NODE_CLASS_MAPPINGS) = 2
    /\ \E w \in DOMAIN NODE_CLASS_MAPPINGS : NODE_CLASS_MAPPINGS[w] \in Owners
    /\ last_reg.result = "duplicate workflow name"
    /\ last_reg.serial = 3

\* the four schema errors
SchemaErrors ==
    {"duplicate workflow name", "duplicate display name", "duplicate class",
     "return names mismatch"}

\* C12: a decoration whose return-name count differs from the return-type
\* count, or that meets, with the window open, a registered workflow
\* identifier, display name or owning class, ends in a schema error; and a
\* decoration that ends in a schema error leaves NODE_CLASS_MAPPINGS,
\* NODE_DISPLAY_NAME_MAPPINGS and the attributes of every class as they were.
C12_SchemaErrorsChangeNothing ==
    [][n_decorations' = n_decorations + 1 =>
          /\ (last_reg'.window /\ ColorOk(last_reg'.color)
                 /\ \/ last_reg'.workflow_name \in DOMAIN NODE_CLASS_MAPPINGS
                    \/ last_reg'.display_name \in Values(NODE_DISPLAY_NAME_MAPPINGS)
                    \/ last_reg'.node_class \in Values(NODE_CLASS_MAPPINGS))
              => last_reg'.result \in SchemaErrors
          /\ last_reg'.names_mismatch => last_reg'.result = "return names mismatch"
          /\ last_reg'.result \in SchemaErrors =>
                UNCHANGED <<NODE_CLASS_MAPPINGS, NODE_DISPLAY_NAME_MAPPINGS, class_attrs>>]_vars

\* a method of a class that already owns a node has just been refused, under
\* a new workflow identifier and a new display name
C12_Witness ==
    /\ last_reg.result = "duplicate class"
    /\ last_reg.workflow_name \notin DOMAIN NODE_CLASS_MAPPINGS
    /\ last_reg.display_name \notin Values(NODE_DISPLAY_NAME_MAPPINGS)
    /\ class_attrs[last_reg.node_class].set

(***************************************************************************)
(* The signature introspector: _get_type_str, _annotate_input and          *)
(* _infer_input_types_from_annotations.                                    *)
(*                                                                         *)
(* An annotation is a class, list[class] or inspect._empty.  A default is  *)
(* inspect.Parameter.empty, None, a plain value, or a Choice, StringInput  *)
(* or NumberInput.  A python dict is a function from its keys.             *)
(***************************************************************************)
ClassAnn(cls) == [kind |-> "class", cls |-> cls]

ListAnn(cls) == [kind |-> "list", of |-> ClassAnn(cls)]

\* the class whose __module__ and __qualname__ an annotation shows:
\* list[X] shows those of list, inspect._empty its own
AnnotationClass(annotation) ==
    CASE annotation.kind = "class" -> annotation.cls
      [] annotation.kind = "list" -> Class("builtins", "list")
      [] annotation.kind = "empty" -> Class("inspect", "_empty")

RECURSIVE _get_type_str(_, _)
\* lines 210-221
_get_type_str(reg, the_type) ==
    LET key == _get_fully_qualified_name(AnnotationClass(the_type))
    IN  IF key \notin DOMAIN reg.types /\ the_type.kind = "list"
        THEN _get_type_str(reg, the_type.of)
        ELSE IF key \in DOMAIN reg.types THEN reg.types[key] ELSE any_type

EmptyDefault == [kind |-> "empty"]

NoneDefault == [kind |-> "none"]

ValueDefault(v) == [kind |-> "value", val |-> v]

\* lines 72-79
Choice(choices) == [kind |-> "Choice", choices |-> choices]

\* lines 82-90
StringInput(value, multiline, force_input, optional, hidden) ==
    [kind |-> "StringInput", val |-> value, multiline |-> multiline,
     force_input |-> force_input, optional |-> optional, hidden |-> hidden]

\* lines 101-127, for min = max = step = round = None and display = "number";
\* a NumberInput is a float
NumberInput(default, optional, hidden) ==
    [kind |-> "NumberInput", val |-> [kind |-> "float", val |-> default],
     optional |-> optional, hidden |-> hidden]

\* lines 92-98 and 129-139
to_dict(default) ==
    IF default.kind = "StringInput"
    THEN [default |-> default.val, multiline |-> default.multiline, display |-> "input",
          forceInput |-> default.force_input]
    ELSE [default |-> default.val, display |-> "number"]

\* lines 644-659
Metadata(reg, annotation, default) ==
    LET key   == _get_fully_qualified_name(AnnotationClass(annotation))
        force == key \in DOMAIN reg.force_input /\ reg.force_input[key]
    IN  CASE default.kind = "none" -> [optional |-> TRUE, forceInput |-> TRUE]
          [] default.kind = "empty" -> [forceInput |-> TRUE]
          [] OTHER -> IF force THEN [default |-> default.val, forceInput |-> TRUE]
                      ELSE [default |-> default.val]

\* a wrapper default is always reported optional
annotate_flags_alwaysOptional(default) ==
    CASE default.kind = "Choice" -> [is_optional |-> FALSE, is_hidden |-> FALSE]
      [] default.kind \in {"StringInput", "NumberInput"} ->
            [is_optional |-> TRUE, is_hidden |-> default.hidden]
      [] OTHER -> [is_optional |-> default.kind # "empty", is_hidden |-> FALSE]

\* lines 639-642 and 661: the second and third component of _annotate_input's result
annotate_flags(default) ==
    CASE default.kind = "Choice" -> [is_optional |-> FALSE, is_hidden |-> FALSE]
      [] default.kind \in {"StringInput", "NumberInput"} ->
            [is_optional |-> default.optional, is_hidden |-> default.hidden]
      [] OTHER -> [is_optional |-> default.kind # "empty", is_hidden |-> FALSE]

\* lines 634-661
_annotate_input(reg, annotation, default) ==
    LET type_name == _get_type_str(reg, annotation)
        flags     == annotate_flags(default)
        the_param ==
            CASE default.kind = "Choice" -> <<default.choices>>
              [] default.kind \in {"StringInput", "NumberInput"} ->
                    <<type_name, to_dict(default)>>
              [] OTHER -> <<type_name, Metadata(reg, annotation, default)>>
    IN  [the_param |-> the_param, is_optional |-> flags.is_optional,
         is_hidden |-> flags.is_hidden]

Param(name, annotation, default) ==
    [name |-> name, annotation |-> annotation, default |-> default]

\* lines 695-704: the map a parameter is put in
Placement(reg, param) ==
    LET a == _annotate_input(reg, param.annotation, param.default)
    IN  IF param.name \in {"unique_id", "extra_pnginfo"} THEN "hidden"
        ELSE IF ~a.is_optional THEN "required"
        ELSE IF a.is_hidden THEN "hidden"
        ELSE "optional"

\* lines 664-705; params is the sequence of parameters after "self" is skipped,
\* their names distinct
_infer_input_types_from_annotations(reg, params) ==
    LET idx(pl) == {i \in 1..Len(params) : Placement(reg, params[i]) = pl}
        at(n)   == CHOOSE i \in 1..Len(params) : params[i].name = n
        entry(n) ==
            IF n = "unique_id" THEN "UNIQUE_ID"
            ELSE IF n = "extra_pnginfo" THEN "EXTRA_PNGINFO"
            ELSE _annotate_input(reg, params[at(n)].annotation, params[at(n)].default).the_param
        names(pl) == {params[i].name : i \in idx(pl)}
        all == {params[i].name : i \in 1..Len(params)}
    IN  [required_inputs |-> [n \in names("required") |-> entry(n)],
         hidden_inputs   |-> [n \in names("hidden") |-> entry(n)],
         optional_inputs |-> [n \in names("optional") |-> entry(n)],
         input_is_list   |-> [n \in all |-> params[at(n)].annotation.kind = "list"],
         input_type_map  |-> [n \in all |-> params[at(n)].annotation]]

(***************************************************************************)
(* Tensor verification: _verify_tensor, tensor_types, _verify_return_type. *)
(* The result is "ok" or the name of the assertion that fails.             *)
(***************************************************************************)
tensor_types ==
    [t \in {"IMAGE", "MASK", "DEPTH"} |->
        CASE t = "IMAGE" -> [allowed_shapes |-> Some({4}), allowed_dims |-> NoneOpt,
                             allowed_channels |-> Some({1, 3, 4})]
          [] t = "MASK"  -> [allowed_shapes |-> Some({3}), allowed_dims |-> NoneOpt,
                             allowed_channels |-> NoneOpt]
          [] t = "DEPTH" -> [allowed_shapes |-> Some({4}), allowed_dims |-> NoneOpt,
                             allowed_channels |-> Some({1})]]

RECURSIVE _verify_tensor(_, _, _, _, _)
_verify_tensor(arg, tensor_type, allowed_shapes, allowed_dims, allowed_channels) ==
    IF ~verify_tensors THEN "ok"
    ELSE IF arg.kind = "tensor" THEN
        IF tensor_type = "MASK" /\ ~(arg.lo >= 0 /\ arg.hi <= 1) THEN "range"
        ELSE IF allowed_shapes.some /\ Len(arg.shape) \notin allowed_shapes.val
            THEN "shape"
        ELSE IF allowed_dims.some
                /\ \E i \in 1..Len(allowed_dims.val) : arg.shape[i] > allowed_dims.val[i]
            THEN "dims"
        ELSE IF allowed_channels.some
                /\ arg.shape[Len(arg.shape)] \notin allowed_channels.val
            THEN "channels"
        ELSE "ok"
    ELSE IF arg.kind = "list" THEN
        \* "for a in arg: return _verify_tensor(a, ...)": the first element only,
        \* and tensor_type is not passed on, so it is "" in the inner call
        IF arg.items = <<>> THEN "ok"
        ELSE _verify_tensor(Head(arg.items), "", allowed_shapes, allowed_dims,
                            allowed_channels)
    ELSE "ok"

_verify_return_type(ret, return_type) ==
    IF return_type \in DOMAIN tensor_types
    THEN _verify_tensor(ret, return_type, tensor_types[return_type].allowed_shapes,
                        tensor_types[return_type].allowed_dims,
                        tensor_types[return_type].allowed_channels)
    ELSE "ok"

RECURSIVE _all_to(_, _)
_all_to(device, arg) ==
    IF arg.kind = "tensor" THEN [arg EXCEPT !.device = device]
    ELSE IF arg.kind = "list"
        THEN ListV([i \in 1..Len(arg.items) |-> _all_to(device, arg.items[i])])
    ELSE arg

(***************************************************************************)
(* The wrapper of a node, lines 523-584, up to the call of                 *)
(* _call_function_and_verify_result, which SpecRetry models.               *)
(***************************************************************************)
\* lines 224-225
_get_device == IF cuda_available THEN "cuda:0" ELSE "cpu"

\* cls(arg): the object the constructor of the annotated class builds from arg
Construct(annotation, arg) ==
    [kind |-> "object", cls |-> AnnotationClass(annotation), from |-> arg]

Ok(v) == [ok |-> TRUE, val |-> v]

Fail(type, why) == [ok |-> FALSE, error |-> [type |-> type, why |-> why]]

\* lines 538-540: only the required map is asked for the tag, and "arg.shape"
\* exists on a tensor only
PromoteMask(schema, key, arg) ==
    IF ~(key \in DOMAIN schema.required_inputs /\ schema.required_inputs[key][1] = "MASK")
    THEN Ok(arg)
    ELSE IF arg.kind # "tensor" THEN Fail("AttributeError", "shape")
    ELSE IF Len(arg.shape) = 2 THEN Ok([arg EXCEPT !.shape = <<1>> \o arg.shape])
    ELSE Ok(arg)

\* lines 542-548
AutoConvert(reg, schema, key, arg) ==
    IF key \notin DOMAIN schema.required_inputs \cup DOMAIN schema.optional_inputs THEN arg
    ELSE LET cls == schema.input_type_map[key]
             fq  == _get_fully_qualified_name(AnnotationClass(cls))
         IN  IF fq \in DOMAIN reg.autoconvert /\ reg.autoconvert[fq]
             THEN IF arg.kind = "list"
                  THEN ListV([i \in 1..Len(arg.items) |-> Construct(cls, arg.items[i])])
                  ELSE Construct(cls, arg)
             ELSE arg

\* tensor_types.items(): the tags in the order of the dict
TensorTypeOrder == <<"IMAGE", "MASK", "DEPTH">>

\* lines 296-300
_verify_tensor_type(key, arg, schema) ==
    LET has(tensor_type) ==
            \/ /\ key \in DOMAIN schema.required_inputs
               /\ schema.required_inputs[key][1] = tensor_type
            \/ /\ key \in DOMAIN schema.optional_inputs
               /\ schema.optional_inputs[key][1] = tensor_type
        hits == {i \in 1..Len(TensorTypeOrder) : has(TensorTypeOrder[i])}
    IN  IF hits = {} THEN "ok"
        ELSE LET t == TensorTypeOrder[CHOOSE i \in hits : \A j \in hits : i <= j]
             IN  _verify_tensor(arg, t, tensor_types[t].allowed_shapes,
                                tensor_types[t].allowed_dims, tensor_types[t].allowed_channels)

\* lines 537-563: what the first loop makes of one keyword argument
CoerceAndVerify(reg, schema, key, arg) ==
    LET moved    == _all_to(_get_device, arg)
        promoted == PromoteMask(schema, key, moved)
    IN  IF ~promoted.ok THEN promoted
        ELSE LET converted == AutoConvert(reg, schema, key, promoted.val)
                 verdict   == _verify_tensor_type(key, converted, schema)
             IN  IF verdict # "ok" THEN Fail("ValueError", verdict) ELSE Ok(converted)

\* lines 571-577: what the second loop makes of one keyword argument
Unwrap(schema, key, arg) ==
    IF key \notin DOMAIN schema.input_is_list THEN Fail("KeyError", "input_is_list_map")
    ELSE IF schema.input_is_list[key] THEN Ok(arg)
    ELSE IF arg.kind = "list"
        THEN IF Len(arg.items) = 1 THEN Ok(arg.items[1]) ELSE Fail("AssertionError", "len")
    ELSE IF arg.kind = "tensor"
        \* len(tensor) is the extent of its first axis, tensor[0] its first slice
        THEN IF arg.shape[1] = 1 THEN Ok([arg EXCEPT !.shape = Tail(arg.shape)])
             ELSE Fail("AssertionError", "len")
    ELSE Fail("TypeError", "len")

\* line 520
ListMode(schema) == \E n \in DOMAIN schema.input_is_list : schema.input_is_list[n]

RECURSIVE FirstLoop(_, _, _)
\* lines 536-563 over the keyword arguments in call order: the coerced
\* arguments, or the first exception
FirstLoop(reg, schema, kws) ==
    IF kws = <<>> THEN Ok(<<>>)
    ELSE LET one == CoerceAndVerify(reg, schema, Head(kws)[1], Head(kws)[2])
         IN  IF ~one.ok THEN one
             ELSE LET rest == FirstLoop(reg, schema, Tail(kws))
                  IN  IF ~rest.ok THEN rest
                      ELSE Ok(<< <<Head(kws)[1], one.val>> >> \o rest.val)

RECURSIVE SecondLoop(_, _)
\* lines 571-577 over the keyword arguments in call order
SecondLoop(schema, kws) ==
    IF kws = <<>> THEN Ok(<<>>)
    ELSE LET one == Unwrap(schema, Head(kws)[1], Head(kws)[2])
         IN  IF ~one.ok THEN one
             ELSE LET rest == SecondLoop(schema, Tail(kws))
                  IN  IF ~rest.ok THEN rest
                      ELSE Ok(<< <<Head(kws)[1], one.val>> >> \o rest.val)

\* lines 533-577: the keyword arguments for the implementation, or the exception
PrepareInputs(reg, schema, kws) ==
    LET first == FirstLoop(reg, schema, kws)
    IN  IF ~first.ok THEN first
        ELSE IF ListMode(schema) THEN SecondLoop(schema, first.val)
        ELSE first

\* the values the host passes: elements, and lists of them
WithLists(E) == E \cup {ListV(items) : items \in SeqsUpTo(E, MaxListLen)}

\* the registry after a user module registered its class for autoconversion
UserRegistry == register_type(LoadedRegistry, UserClass(1), "CUSTOM", TRUE, FALSE, FALSE)

WrapperInit ==
    \* def f(mask: MaskTensor or list[MaskTensor] [= None],
    \*       n: int or list[int] or UserA [= 3])
    /\ parameters \in
          {<<Param("mask", a1, d1), Param("n", a2, d2)>> :
              a1 \in {ClassAnn(MaskTensor), ListAnn(MaskTensor)},
              d1 \in {EmptyDefault, NoneDefault},
              a2 \in {ClassAnn(IntClass), ListAnn(IntClass), ClassAnn(UserClass(1))},
              d2 \in {EmptyDefault, ValueDefault(IntV(3))}}
    /\ cuda_available \in BOOLEAN
    \* masks of three axes and of two, in range and out of range; an integer
    /\ \E m \in WithLists({TensorV(<<1, 2, 2>>, 0, 1, "cpu"), TensorV(<<2, 2>>, 0, 1, "cpu"),
                           TensorV(<<1, 2, 2>>, 0, 2, "cpu")}),
          n \in WithLists({IntV(5)}), n_given \in BOOLEAN :
          kwargs = IF n_given THEN << <<"mask", m>>, <<"n", n>> >> ELSE << <<"mask", m>> >>
    /\ wrapper_pc = "ready"
    /\ impl_kwargs = <<>>
    /\ wrapper_error = [type |-> "none"]

WrapperIdle ==
    /\ parameters = <<>>
    /\ cuda_available = FALSE
    /\ kwargs = <<>>
    /\ wrapper_pc = "ready"
    /\ impl_kwargs = <<>>
    /\ wrapper_error = [type |-> "none"]

\* lines 523-584: the wrapper runs until it calls the implementation or raises
WrapperCall ==
    /\ wrapper_pc = "ready"
    /\ LET schema   == _infer_input_types_from_annotations(CurrentRegistry, parameters)
           prepared == PrepareInputs(CurrentRegistry, schema, kwargs)
       IN  IF prepared.ok
           THEN /\ already_initialized' = TRUE
                /\ wrapper_pc' = "called"
                /\ impl_kwargs' = prepared.val
                /\ UNCHANGED wrapper_error
           ELSE /\ wrapper_pc' = "raised"
                /\ wrapper_error' = prepared.error
                /\ UNCHANGED <<already_initialized, impl_kwargs>>
    /\ UNCHANGED <<parameters, kwargs, cuda_available, NODE_CLASS_MAPPINGS,
                   NODE_DISPLAY_NAME_MAPPINGS, class_attrs, n_decorations, last_reg,
                   retryVars, typeVars, otherVars>>

(***************************************************************************)
(* Claims about the wrapper's input stage, checked under SpecWrapper.      *)
(***************************************************************************)
Schema == _infer_input_types_from_annotations(CurrentRegistry, parameters)

\* the keyword arguments whose parameter is not declared as a sequence
ScalarArgs == {i \in 1..Len(kwargs) : ~Schema.input_is_list[kwargs[i][1]]}

\* a value the parameter's tag accepts: any non-tensor, or a tensor with three
\* axes and values inside [0,1]
ValidElem(v) == v.kind = "tensor" => (Len(v.shape) = 3 /\ v.lo >= 0 /\ v.hi <= 1)

\* the host calls a list-mode node with lists of valid values, one element
\* for every parameter that is not declared as a sequence
ListModeCall ==
    /\ ListMode(Schema)
    /\ \A i \in 1..Len(kwargs) :
          /\ kwargs[i][2].kind = "list"
          /\ \A j \in 1..Len(kwargs[i][2].items) : ValidElem(kwargs[i][2].items[j])
          /\ i \in ScalarArgs => Len(kwargs[i][2].items) = 1

\* the element as the implementation is to see it: moved to the device and,
\* for a type registered for autoconversion, converted
AsPassed(key, el) == AutoConvert(CurrentRegistry, Schema, key, _all_to(_get_device, el))

\* C5: in list mode, once the wrapper has run, (a) a call whose scalar
\* parameters all arrive as one-element lists of valid values reaches the
\* implementation with every such parameter bound to the single element, and
\* (b) a call in which a scalar parameter arrives with more than one element
\* raises without calling the implementation.
C5_ListModeUnwrap ==
    (wrapper_pc # "ready" /\ ListMode(Schema)) =>
        /\ ListModeCall =>
              \A i \in ScalarArgs :
                  /\ wrapper_pc = "called"
                  /\ impl_kwargs[i] = <<kwargs[i][1], AsPassed(kwargs[i][1], kwargs[i][2].items[1])>>
        /\ (\E i \in ScalarArgs : kwargs[i][2].kind = "list" /\ Len(kwargs[i][2].items) > 1) =>
              /\ wrapper_pc = "raised"
              /\ impl_kwargs = <<>>

\* the schema tags the parameter MASK, in the required or the optional map
MaskTagged(key) ==
    \/ key \in DOMAIN Schema.required_inputs /\ Schema.required_inputs[key][1] = "MASK"
    \/ key \in DOMAIN Schema.optional_inputs /\ Schema.optional_inputs[key][1] = "MASK"

\* an array of two axes with values inside [0,1]
PlainMask2(v) == v.kind = "tensor" /\ Len(v.shape) = 2 /\ v.lo >= 0 /\ v.hi <= 1

\* C13: once the wrapper of a node that is not list-mode has run, every keyword
\* argument tagged MASK, in the required or the optional map, that was supplied
\* as a 2-axis array with values in [0,1] has passed input validation and
\* reached the implementation as a 3-axis array with a leading axis of extent 1.
C13_MaskPromotion ==
    (wrapper_pc # "ready" /\ ~ListMode(Schema)) =>
        \A i \in 1..Len(kwargs) :
            (MaskTagged(kwargs[i][1]) /\ PlainMask2(kwargs[i][2])) =>
                /\ wrapper_pc = "called"
                /\ impl_kwargs[i][2].kind = "tensor"
                /\ impl_kwargs[i][2].shape = <<1>> \o kwargs[i][2].shape

(***************************************************************************)
(* What an implementation can do on one call: raise, or return a value.    *)
(* A returned value is a tuple of elements or a single element that is not *)
(* a tuple (None is such an element).                                      *)
(***************************************************************************)
GoodMask == TensorV(<<1, 2, 2>>, 0, 1, "cuda")

BadMask == TensorV(<<1, 2, 2>>, 0, 2, "cuda")

RetElems == {NoneV, GoodMask, BadMask}

TupleOf(items) == [tuple |-> TRUE, items |-> items]

NotTuple(item) == [tuple |-> FALSE, item |-> item]

ReturnValues ==
    {TupleOf(s) : s \in SeqsUpTo(RetElems, MaxReturns + 1)}
        \cup {NotTuple(e) : e \in RetElems}

ImplOutcomes == {[kind |-> "raise"]} \cup {[kind |-> "return", value |-> v] : v \in ReturnValues}

ReturnTags == {"MASK", "INT"}

\* exceptions
ImplError(attempt) == [type |-> "ImplError", attempt |-> attempt]

\* line 401: the message holds wrapped_name, the words "no return type specified"
\* (the number of return types, zero, in words) and code_origin_loc
NotNoneError ==
    [type |-> "AssertionError", text |-> "Return value is not None", expected |-> 0,
     names |-> {"wrapped_name", "no return type", "code_origin_loc"}]

\* lines 406-408: the message holds wrapped_name, both lengths and code_origin_loc
ArityError(got, expected) ==
    [type |-> "AssertionError", text |-> "Number of return values", got |-> got,
     expected |-> expected,
     names |-> {"wrapped_name", "len(result)", "len(adjusted_return_types)",
                "code_origin_loc"}]

\* line 422: a ValueError that replaces the verifier's assertion ("from None")
OutputError(i, why) ==
    [type |-> "ValueError", text |-> "Error verifying OUTPUT tensor", index |-> i,
     why |-> why, names |-> {"code_origin_loc"}]

UnreachableError == [type |-> "AssertionError", text |-> "Should never reach this point"]

Returned(v) == [returned |-> TRUE, value |-> v]

Raised(e) == [returned |-> FALSE, exc |-> e]

IsNone(v) == ~v.tuple /\ v.item = NoneV

\* the first output whose verification raises, 0 when none does
FirstBadOutput(items, types) ==
    LET bad == {i \in 1..Len(items) : _verify_return_type(items[i], types[i]) # "ok"}
    IN  IF bad = {} THEN 0 ELSE CHOOSE i \in bad : \A j \in bad : i <= j

\* lines 406-408: "assert len(result) == len(adjusted_return_types)" fails
ArityMismatch_onlyLonger(result, types) == Len(result) > Len(types)

ArityMismatch(result, types) == Len(result) # Len(types)

\* lines 385-424: the body of the try statement, for one behaviour of func
TryBody(o, types, attempt) ==
    IF o.kind = "raise" THEN Raised(ImplError(attempt))
    ELSE IF Len(types) = 0 THEN
        IF IsNone(o.value) THEN Returned(TupleOf(<<NoneV>>)) ELSE Raised(NotNoneError)
    ELSE
        LET result == IF o.value.tuple THEN o.value.items ELSE <<o.value.item>>
            bad    == FirstBadOutput(result, types)
        IN  IF ArityMismatch(result, types) THEN Raised(ArityError(Len(result), Len(types)))
            ELSE IF bad # 0
                THEN Raised(OutputError(bad - 1, _verify_return_type(result[bad], types[bad])))
            ELSE Returned(TupleOf([i \in 1..Len(result) |-> _all_to("cpu", result[i])]))

(***************************************************************************)
(* _call_function_and_verify_result                                        *)
(***************************************************************************)
RetryInit ==
    /\ max_tries \in 0..MaxTriesBound
    /\ process_exception_logic \in BOOLEAN
    /\ verify_tensors \in BOOLEAN
    /\ adjusted_return_types \in SeqsUpTo(ReturnTags, MaxReturns)
    /\ pc = "idle"
    /\ try_count = 0
    /\ last = [kind |-> "none"]
    /\ outcome = [returned |-> FALSE, exc |-> [type |-> "none"]]
    /\ impl_calls = 0
    /\ impl_raises = 0
    /\ other_fails = 0
    /\ hook_calls = 0
    /\ root_handlers = 0
    /\ sys_stdout \in {"__stdout__", "host_stream"}
    /\ stdout_before = sys_stdout

\* line 380: the call starts
Call ==
    /\ pc = "idle"
    /\ pc' = "loop"
    /\ try_count' = 0
    /\ stdout_before' = sys_stdout
    /\ UNCHANGED <<max_tries, process_exception_logic, verify_tensors,
                   adjusted_return_types, last, outcome, impl_calls, impl_raises,
                   other_fails, hook_calls, root_handlers, sys_stdout>>
    /\ UNCHANGED <<typeVars, regVars, wrapperVars, otherVars>>

\* line 427: "if try_count == max_tries"
OutOfTries_late(count) == count > max_tries

OutOfTries(count) == count = max_tries

\* lines 427-432: is the hook called for an exception caught on this attempt?
HookRuns_notBeforeLast(count) ==
    ~OutOfTries(count) /\ count # max_tries - 1 /\ process_exception_logic

HookRuns(count) == ~OutOfTries(count) /\ process_exception_logic

\* lines 382-438: one iteration of the while loop, with its except and finally
Attempt(o) ==
    /\ pc = "loop"
    /\ try_count < max_tries
    /\ try_count' = try_count + 1
    /\ impl_calls' = impl_calls + 1
    /\ last' = o
    /\ LET body == TryBody(o, adjusted_return_types, try_count + 1)
       IN  IF body.returned
           THEN /\ pc' = "returned"
                /\ outcome' = body
                /\ UNCHANGED <<impl_raises, other_fails, hook_calls>>
           ELSE /\ impl_raises' = impl_raises + (IF o.kind = "raise" THEN 1 ELSE 0)
                /\ other_fails' = other_fails + (IF o.kind = "raise" THEN 0 ELSE 1)
                /\ IF OutOfTries(try_count + 1)
                   THEN /\ pc' = "raised"
                        /\ outcome' = body
                   ELSE /\ pc' = "loop"
                        /\ UNCHANGED outcome
                /\ hook_calls' = hook_calls + (IF HookRuns(try_count + 1) THEN 1 ELSE 0)
    \* finally: the handler added at line 390 is removed, sys.stdout = sys.__stdout__
    /\ root_handlers' = (root_handlers + 1) - 1
    /\ sys_stdout' = "__stdout__"
    /\ UNCHANGED <<max_tries, process_exception_logic, verify_tensors,
                   adjusted_return_types, stdout_before>>
    /\ UNCHANGED <<typeVars, regVars, wrapperVars, otherVars>>

\* line 440: the loop ended without a return or a raise
LoopExit ==
    /\ pc = "loop"
    /\ ~(try_count < max_tries)
    /\ pc' = "raised"
    /\ outcome' = Raised(UnreachableError)
    /\ UNCHANGED <<max_tries, process_exception_logic, verify_tensors,
                   adjusted_return_types, try_count, last, impl_calls, impl_raises,
                   other_fails, hook_calls, root_handlers, sys_stdout, stdout_before>>
    /\ UNCHANGED <<typeVars, regVars, wrapperVars, otherVars>>

RetryNext ==
    \/ Call
    \/ \E o \in ImplOutcomes : Attempt(o)
    \/ LoopExit


(***************************************************************************)
(* Claims about the retry loop, checked under SpecRetry.                   *)
(***************************************************************************)
\* an element as it is handed back: a tensor on the cpu, anything else as it is
OnCpu(e) == IF e.kind = "tensor" THEN [e EXCEPT !.device = "cpu"] ELSE e

\* does an element satisfy what its return tag asks of it?
ValidFor(e, tag) ==
    \/ e.kind # "tensor"
    \/ ~verify_tensors
    \/ tag # "MASK"
    \/ (e.lo >= 0 /\ e.hi <= 1 /\ Len(e.shape) = 3)

AsItems(v) == IF v.tuple THEN v.items ELSE <<v.item>>

\* a value the node may return: None for a node without return slots, else
\* one valid element per declared slot
ValidResult(v) ==
    IF adjusted_return_types = <<>> THEN ~v.tuple /\ v.item = NoneV
    ELSE /\ Len(AsItems(v)) = Len(adjusted_return_types)
         /\ \A i \in 1..Len(adjusted_return_types) :
                ValidFor(AsItems(v)[i], adjusted_return_types[i])

Normalized(v) ==
    IF adjusted_return_types = <<>> THEN <<NoneV>>
    ELSE [i \in 1..Len(AsItems(v)) |-> OnCpu(AsItems(v)[i])]

\* C1: when the implementation raised on its first K calls and then returned a
\* valid result, the call has returned that result normalized, the
\* implementation was called K+1 times and a configured hook K times.
C1_RetryThenSuccess ==
    (/\ last.kind = "return"
     /\ ValidResult(last.value)
     /\ other_fails = 0)
    => /\ pc = "returned"
       /\ outcome.returned
       /\ outcome.value.tuple
       /\ outcome.value.items = Normalized(last.value)
       /\ impl_calls = impl_raises + 1
       /\ hook_calls = (IF process_exception_logic THEN impl_raises ELSE 0)

C1_Witness ==
    /\ pc = "returned"
    /\ impl_raises = 2
    /\ other_fails = 0
    /\ process_exception_logic
    /\ hook_calls = 2
    /\ outcome.value.items = <<[GoodMask EXCEPT !.device = "cpu"]>>

\* C2: when the implementation has returned a tuple whose length is not the
\* number N of declared return slots, the call has not returned a result, and
\* when it has ended it raised the arity error, which names N and the source
\* location.
WrongArity ==
    /\ last.kind = "return"
    /\ last.value.tuple
    /\ Len(last.value.items) # Len(adjusted_return_types)

C2_ArityError ==
    WrongArity
    => /\ pc \in {"loop", "raised"}
       /\ pc = "raised"
          => /\ ~outcome.returned
             /\ outcome.exc.type = "AssertionError"
             /\ outcome.exc.text \in {"Number of return values", "Return value is not None"}
             /\ outcome.exc.expected = Len(adjusted_return_types)
             /\ "code_origin_loc" \in outcome.exc.names

C2_Witness ==
    /\ WrongArity
    /\ pc = "raised"
    /\ Len(adjusted_return_types) = 2
    /\ Len(last.value.items) = 1
    /\ try_count = 2

C2_WitnessZeroSlots ==
    /\ WrongArity
    /\ pc = "raised"
    /\ adjusted_return_types = <<>>

\* C8 (as claimed): a configured hook has been called once for every attempt on
\* which the implementation raised, the attempt that exhausts max_tries included.
C8_HookOnEveryFailure ==
    (process_exception_logic /\ other_fails = 0) => hook_calls = impl_raises

\* C9: when every call of the implementation so far has raised and
\* max_tries >= 1, the call is either still retrying with fewer than max_tries
\* calls made, or it has ended after exactly max_tries calls by raising the
\* failure of the last attempt itself.
C9_ExhaustionReraisesLast ==
    (/\ pc # "idle"
     /\ max_tries >= 1
     /\ impl_raises = impl_calls)
    => \/ pc = "loop" /\ impl_calls < max_tries
       \/ /\ pc = "raised"
          /\ impl_calls = max_tries
          /\ outcome = Raised(ImplError(max_tries))

C9_Witness ==
    /\ pc = "raised"
    /\ max_tries = 3
    /\ impl_raises = 3
    /\ outcome.exc = ImplError(3)

\* C16: when the call has ended, by a return or by a raise, after any number
\* of attempts, no handler it added is left on the root logger and sys.stdout
\* is the object it was when the call began.
C16_CaptureReleased ==
    pc \in {"returned", "raised"} =>
        /\ root_handlers = 0
        /\ sys_stdout = stdout_before

\* C17: for every value of max_tries, a call that has ended has returned or
\* has raised a failure that came out of an attempt: the assertion after the
\* loop has not fired.
C17_LoopEndUnreachable ==
    pc \in {"returned", "raised"} =>
        /\ impl_calls >= 1
        /\ ~outcome.returned => outcome.exc # UnreachableError

(***************************************************************************)
(* The tensor verifier applied to values tagged MASK, lines 269-306.       *)
(***************************************************************************)
\* masks of two, three and four axes, with values inside and outside [0,1]
MaskTensors ==
    {TensorV(shape, lo, hi, "cpu") : shape \in {<<2, 2>>, <<1, 2, 2>>, <<1, 2, 2, 1>>}, lo \in {-1, 0}, hi \in {1, 2}}

\* the input maps of a function with the one parameter "mask: MaskTensor",
\* required (no default) or optional (default None)
MaskSchema(optional) ==
    _infer_input_types_from_annotations(
        LoadedRegistry,
        <<Param("mask", ClassAnn(MaskTensor), IF optional THEN NoneDefault ELSE EmptyDefault)>>)

VerifyInit ==
    /\ checked_value \in WithLists(MaskTensors)
    /\ checked_as = "none"
    /\ verify_pc = "ready"

VerifyIdle ==
    /\ checked_value = NoneV
    /\ checked_as = "none"
    /\ verify_pc = "ready"

\* lines 556-561: the wrapper verifies the keyword argument "mask"
VerifyInput(optional) ==
    /\ verify_pc = "ready"
    /\ checked_as' = "input"
    /\ verify_pc' = IF _verify_tensor_type("mask", checked_value, MaskSchema(optional)) = "ok"
                    THEN "passed" ELSE "raised"
    /\ UNCHANGED <<checked_value, retryVars, typeVars, regVars, wrapperVars, setterVars,
                   reloadVars, laterVars>>

\* lines 418-422: the retry loop verifies a value returned under the tag MASK
VerifyOutput ==
    /\ verify_pc = "ready"
    /\ checked_as' = "output"
    /\ verify_pc' = IF _verify_return_type(checked_value, "MASK") = "ok"
                    THEN "passed" ELSE "raised"
    /\ UNCHANGED <<checked_value, retryVars, typeVars, regVars, wrapperVars, setterVars,
                   reloadVars, laterVars>>

VerifyNext ==
    \/ \E optional \in BOOLEAN : VerifyInput(optional)
    \/ VerifyOutput

(***************************************************************************)
(* Claims about mask validation, checked under SpecVerify.                 *)
(***************************************************************************)
OutsideUnitRange(t) == t.lo < 0 \/ t.hi > 1

\* some array of the value, alone or in a list, holds a value outside [0,1]
HasOutOfRange(v) ==
    IF v.kind = "list" THEN \E i \in 1..Len(v.items) : OutsideUnitRange(v.items[i])
    ELSE OutsideUnitRange(v)

\* C6: with verification enabled, a value tagged MASK, as an input or as an
\* output, alone or inside a list, with any number of axes, is rejected when
\* some value lies outside [0,1] and accepted when all values lie inside.
C6_MaskValidation ==
    (verify_tensors /\ verify_pc # "ready") =>
        (verify_pc = "raised" <=> HasOutOfRange(checked_value))

(***************************************************************************)
(* register_setter and create_dynamic_setter, lines 879-1000, and a call   *)
(* of the adapter they register.                                           *)
(***************************************************************************)
BoolV(b) == [kind |-> "bool", val |-> b]

\* "." in module_name
HasDot(module_name) == module_name \in {"pkg.mod"}

SetterClasses == {Class("mymod", "Counter"), Class("pkg.mod", "Counter")}

\* a property of the class: its name, the value a new object shows for it,
\* and whether it has a setter (attr.fset is not None)
Property(name, value, has_fset) == [name |-> name, value |-> value, fset |-> has_fset]

CurrentCounts == {0, 3}

GivenCounts == {3, 7}

\* dir(cls) lists the names in alphabetical order
PropertyLists ==
    {<<Property("count", IntV(c), w)>> : c \in CurrentCounts, w \in BOOLEAN}
        \cup {<<Property("count", IntV(c), w), Property("enabled", BoolV(TRUE), e)>> :
                 c \in CurrentCounts, w \in BOOLEAN, e \in BOOLEAN}

\* line 900: type(current_value)
PropertyType(value) == IF value.kind = "int" THEN IntClass ELSE BoolClass

\* line 910: the name a property type is registered under, the text of its
\* fully qualified name
QualifiedNameText(cls) == IF cls = IntClass THEN "builtins.int" ELSE "builtins.bool"

\* lines 897-901: the properties that have a setter
Writable(props) == SelectSeq(props, LAMBDA p : p.fset)

RECURSIVE RegisterPropertyTypes(_, _)
\* lines 909-911, for every property collected
RegisterPropertyTypes(reg, props) ==
    IF props = <<>> THEN reg
    ELSE RegisterPropertyTypes(
             register_type(reg, PropertyType(Head(props).value),
                           QualifiedNameText(PropertyType(Head(props).value)),
                           FALSE, TRUE, FALSE),
             Tail(props))

\* lines 930-946: the parameter the generated source declares for a property.
\* The text "NumberInput(3)" evaluates to NumberInput(3) with its other
\* arguments at their defaults, the text "True" to True.
GeneratedParam(prop) ==
    IF PropertyType(prop.value) = IntClass
    THEN Param(prop.name, ClassAnn(IntClass), NumberInput(prop.value.val, FALSE, FALSE))
    ELSE Param(prop.name, ClassAnn(BoolClass), ValueDefault(prop.value))

\* lines 925-928, 951-959, 977, 992: the generated source names the class as
\* "<module>.<name>" in its return annotation, and imports the module only if
\* its name has a dot or is listed in extra_imports; otherwise exec raises
\* NameError
AnnotationUnbound(cls, imports) == ~HasDot(cls.module) /\ cls.module \notin imports

\* line 970 ("new_obj = cls()") and lines 971-974: the new object with every
\* argument that is not None set
NewObject(cls, id, props, given) ==
    [kind |-> "object", cls |-> cls, id |-> id,
     attrs |-> [n \in {props[i].name : i \in 1..Len(props)} |->
                   IF n \in DOMAIN given /\ given[n] # NoneV THEN given[n]
                   ELSE (props[CHOOSE i \in 1..Len(props) : props[i].name = n]).value]]

\* how many objects one run may construct
MaxObjects == 3

SetterInit ==
    /\ setter_cls \in SetterClasses
    /\ properties \in PropertyLists
    /\ extra_imports \in SUBSET {"mymod"}
    /\ setter_pc = "ready"
    /\ adapter = [registered |-> FALSE]
    /\ objects_made = 0
    /\ setter_result = [called |-> FALSE]

SetterIdle ==
    /\ setter_cls = Class("mymod", "Counter")
    /\ properties = <<>>
    /\ extra_imports = {}
    /\ setter_pc = "ready"
    /\ adapter = [registered |-> FALSE]
    /\ objects_made = 0
    /\ setter_result = [called |-> FALSE]

\* lines 879-884: register_setter(cls, extra_imports=extra_imports)
RegisterSetter ==
    /\ setter_pc = "ready"
    /\ LET cls      == setter_cls
           key      == _get_fully_qualified_name(cls)
           known    == \E i \in 1..Len(first_call) : first_call[i].key = key
           writable == Writable(properties)
           reg1     == register_type(CurrentRegistry, cls, cls.qualname, FALSE, FALSE, FALSE)
           reg2     == RegisterPropertyTypes(reg1, writable)
           \* the function object that exec leaves in locals_dict
           func     == [name |-> <<cls.qualname, "setter">>, node_class |-> NoOwner]
           result   == DecorationResult(func, <<cls.qualname>>, <<cls.qualname>>,
                                        NoneOpt, 1, "None")
       IN  /\ _ANNOTATION_TO_COMFYUI_TYPE' = reg2.types
           /\ _SHOULD_AUTOCONVERT' = reg2.autoconvert
           /\ _DEFAULT_FORCE_INPUT' = reg2.force_input
           /\ first_call' = IF known THEN first_call
                            ELSE Append(first_call,
                                        [key |-> key, args |-> CallArgs(cls.qualname, FALSE, FALSE)])
           /\ last_call' =
                 IF writable = <<>>
                 THEN [known |-> known, key |-> key,
                       args |-> CallArgs(cls.qualname, FALSE, FALSE)]
                 ELSE LET t == PropertyType(writable[Len(writable)].value)
                      IN  [known |-> TRUE, key |-> _get_fully_qualified_name(t),
                           args |-> CallArgs(QualifiedNameText(t), FALSE, FALSE)]
           \* line 888: obj = cls()
           /\ objects_made' = objects_made + 1
           /\ IF AnnotationUnbound(cls, extra_imports)
              THEN /\ setter_pc' = "raised"
                   /\ UNCHANGED <<adapter, regVars>>
              ELSE /\ DecorateEffect(func, Some(<<cls.qualname>>), Some(<<cls.qualname>>),
                                     NoneOpt, 1, "None")
                   /\ setter_pc' = IF result = "ok" THEN "registered" ELSE "raised"
                   /\ adapter' =
                         IF result = "ok"
                         THEN [registered |-> TRUE,
                               schema |-> _infer_input_types_from_annotations(
                                              reg2,
                                              [i \in 1..Len(writable) |->
                                                  GeneratedParam(writable[i])])]
                         ELSE adapter
                   /\ UNCHANGED already_initialized
    /\ UNCHANGED <<setter_cls, properties, extra_imports, setter_result, retryVars,
                   wrapperVars, verifyVars, reloadVars, laterVars>>

\* the keyword arguments of one call: the host passes every required input
\* and may leave out an optional one
SetterKwargs(schema, count, enabled) ==
    (IF "count" \in DOMAIN schema.required_inputs THEN << <<"count", count>> >> ELSE <<>>)
        \o (IF "enabled" \in DOMAIN schema.optional_inputs /\ enabled.some
            THEN << <<"enabled", enabled.val>> >> ELSE <<>>)

AsMap(kws) ==
    [n \in {kws[i][1] : i \in 1..Len(kws)} |->
        (kws[CHOOSE i \in 1..Len(kws) : kws[i][1] = n])[2]]

\* lines 523-589 for the adapter: the host calls the wrapper, which hands the
\* keyword arguments to the generated function; a function made by exec has
\* no __module__, so _maybe_reload_module returns it as it is
InvokeSetter(count, enabled) ==
    /\ setter_pc = "registered"
    /\ objects_made < MaxObjects
    /\ LET kws      == SetterKwargs(adapter.schema, count, enabled)
           prepared == PrepareInputs(CurrentRegistry, adapter.schema, kws)
           new_obj  == NewObject(setter_cls, objects_made + 1, properties, AsMap(prepared.val))
           body     == TryBody([kind |-> "return", value |-> NotTuple(new_obj)],
                               <<_get_type_str(CurrentRegistry, ClassAnn(setter_cls))>>, 1)
       IN  IF prepared.ok
           THEN /\ already_initialized' = TRUE
                /\ objects_made' = objects_made + 1
                /\ setter_result' = [called |-> TRUE, kwargs |-> kws, outcome |-> body]
           ELSE /\ setter_result' = [called |-> TRUE, kwargs |-> kws,
                                     outcome |-> Raised(prepared.error)]
                /\ UNCHANGED <<already_initialized, objects_made>>
    /\ UNCHANGED <<setter_cls, properties, extra_imports, setter_pc, adapter,
                   NODE_CLASS_MAPPINGS, NODE_DISPLAY_NAME_MAPPINGS, class_attrs,
                   n_decorations, last_reg, retryVars, typeVars, wrapperVars, verifyVars,
                   reloadVars, laterVars>>

SetterNext ==
    \/ RegisterSetter
    \/ \E count \in {IntV(g) : g \in GivenCounts},
          enabled \in {NoneOpt, Some(BoolV(FALSE))} : InvokeSetter(count, enabled)

(***************************************************************************)
(* Claims about the dynamic setter, checked under SpecSetter.              *)
(***************************************************************************)
\* the only property with a setter is the integer property count, now 3
CountOnly ==
    /\ \E i \in 1..Len(properties) : properties[i] = Property("count", IntV(3), TRUE)
    /\ \A i \in 1..Len(properties) : properties[i].fset => properties[i].name = "count"

EmptyMap == [n \in {} |-> <<>>]

\* the entry of a numeric parameter count with default 3
CountEntry == [n \in {"count"} |-> <<"INT", [default |-> [kind |-> "float", val |-> 3],
                                             display |-> "number"]>>]

\* the latest call of the adapter was given count = 7
CalledWithSeven ==
    /\ setter_result.called
    /\ \E i \in 1..Len(setter_result.kwargs) : setter_result.kwargs[i] = <<"count", IntV(7)>>

\* the call returned one object, constructed by this call, whose count is 7
ReturnedFreshSeven ==
    /\ setter_result.outcome.returned
    /\ Len(setter_result.outcome.value.items) = 1
    /\ LET obj == setter_result.outcome.value.items[1]
       IN  /\ obj.kind = "object"
           /\ obj.cls = setter_cls
           /\ obj.id = objects_made
           /\ obj.id > 1
           /\ obj.attrs["count"] = IntV(7)

C7_WitnessNameError == CountOnly /\ setter_pc = "raised"

MaxMtime == 3

\* func.__module__ of a function made by exec
NoModule == ""

ReloadModules == {"mod_a", "mod_b"}

\* the names hasattr(module, name) finds: the functions at the top level of
\* the module; importlib.reload replaces them and removes none
ModuleAttrs == [m \in ReloadModules |-> IF m = "mod_a" THEN {"run", "helper"} ELSE {"run"}]

\* a function object: its module, its name, and which execution of the
\* module's source made it (0: the import)
Function(module, name, gen) == [module |-> module, name |-> name, gen |-> gen]

\* the functions the wrappers are bound to: two functions of mod_a, a
\* function of mod_b with the name of one of them, a method of a class of
\* mod_a, and a function made by exec
BoundFuncs ==
    {Function("mod_a", "run", 0), Function("mod_a", "helper", 0),
     Function("mod_b", "run", 0), Function("mod_a", "step", 0),
     Function(NoModule, "Counter_setter", 0)}

\* lines 362-364: the file is newer than the ledger says;
\* module_reload_times.get(module_name, 0)
IsNewer(func) ==
    mtime[func.module] > (IF func.module \in DOMAIN module_reload_times
                          THEN module_reload_times[func.module] ELSE 0)

\* line 369: the key func_dict is read and written under
CacheKey(func) == <<func.name>>

\* lines 355-376: was_reloaded and the function returned
_maybe_reload_module(func) ==
    IF func.module = NoModule \/ ~reload_modules
    THEN [was_reloaded |-> FALSE, latest |-> func]
    ELSE IF IsNewer(func) /\ func.name \in ModuleAttrs[func.module]
    THEN [was_reloaded |-> TRUE,
          latest |-> Function(func.module, func.name, loaded_gen[func.module] + 1)]
    ELSE IF CacheKey(func) \in DOMAIN func_dict
    THEN [was_reloaded |-> FALSE, latest |-> func_dict[CacheKey(func)]]
    ELSE [was_reloaded |-> FALSE, latest |-> func]

ReloadInit ==
    /\ reload_modules \in BOOLEAN
    /\ mtime = [m \in ReloadModules |-> 1]
    /\ loaded_gen = [m \in ReloadModules |-> 0]
    /\ module_reload_times = [m \in {} |-> 0]
    /\ func_dict = [k \in {} |-> Function(NoModule, "", 0)]
    /\ last_resolve = [known |-> FALSE]
    /\ last_refresh = [f \in BoundFuncs |-> NoneOpt]

ReloadIdle ==
    /\ reload_modules = TRUE
    /\ mtime = [m \in ReloadModules |-> 1]
    /\ loaded_gen = [m \in ReloadModules |-> 0]
    /\ module_reload_times = [m \in {} |-> 0]
    /\ func_dict = [k \in {} |-> Function(NoModule, "", 0)]
    /\ last_resolve = [known |-> FALSE]
    /\ last_refresh = [f \in BoundFuncs |-> NoneOpt]

\* the developer saves the source file of a module
ModifyFile(m) ==
    /\ mtime[m] < MaxMtime
    /\ mtime' = [mtime EXCEPT ![m] = @ + 1]
    /\ last_refresh' = [f \in BoundFuncs |-> IF f.module = m THEN NoneOpt ELSE last_refresh[f]]
    /\ UNCHANGED <<reload_modules, loaded_gen, module_reload_times, func_dict, last_resolve,
                   retryVars, typeVars, regVars, wrapperVars, verifyVars, setterVars,
                   laterVars>>

\* line 581: a wrapper resolves the function it is bound to
Resolve(func) ==
    LET r        == _maybe_reload_module(func)
        m        == func.module
        reloaded == r.was_reloaded
    IN  /\ loaded_gen' = IF reloaded THEN [loaded_gen EXCEPT ![m] = @ + 1] ELSE loaded_gen
        /\ module_reload_times' =
              IF reloaded THEN Put(module_reload_times, m, mtime[m]) ELSE module_reload_times
        /\ func_dict' = IF reloaded THEN Put(func_dict, CacheKey(func), r.latest) ELSE func_dict
        /\ last_refresh' = IF reloaded THEN [last_refresh EXCEPT ![func] = Some(r.latest)]
                           ELSE last_refresh
        /\ last_resolve' =
              [known |-> TRUE, func |-> func, was_reloaded |-> reloaded, latest |-> r.latest,
               newer |-> m # NoModule /\ IsNewer(func),
               exposed |-> m # NoModule /\ func.name \in ModuleAttrs[m],
               mtime |-> IF m = NoModule THEN 0 ELSE mtime[m],
               ledger |-> IF m \in DOMAIN module_reload_times' THEN Some(module_reload_times'[m])
                          ELSE NoneOpt,
               cached |-> IF CacheKey(func) \in DOMAIN func_dict'
                          THEN Some(func_dict'[CacheKey(func)]) ELSE NoneOpt,
               loaded |-> IF m = NoModule THEN 0 ELSE loaded_gen'[m],
               refreshed_before |-> last_refresh[func]]
        /\ UNCHANGED <<reload_modules, mtime, retryVars, typeVars, regVars, wrapperVars,
                       verifyVars, setterVars, laterVars>>

ReloadNext ==
    \/ \E m \in ReloadModules : ModifyFile(m)
    \/ \E func \in BoundFuncs : Resolve(func)

(***************************************************************************)
(* Claims about the hot-reload manager, checked under SpecReload.          *)
(***************************************************************************)
\* C10: with hot-reload enabled, (a) a resolve of a function whose module's
\* file is newer than the ledger entry and exposes the function's name
\* reports was_reloaded, leaves the file's modification time in the ledger and
\* the refreshed attribute in the cache, and (b) a resolve of a function that
\* was refreshed by an earlier resolve, its file unmodified since, reports no
\* reload and returns that refreshed implementation, not the function the
\* wrapper is bound to.
C10_ReloadResolution ==
    (reload_modules /\ last_resolve.known) =>
        /\ (last_resolve.newer /\ last_resolve.exposed) =>
              /\ last_resolve.was_reloaded
              /\ last_resolve.ledger = Some(last_resolve.mtime)
              /\ last_resolve.latest = Function(last_resolve.func.module,
                                                last_resolve.func.name, last_resolve.loaded)
              /\ last_resolve.cached = Some(last_resolve.latest)
        /\ last_resolve.refreshed_before.some =>
              /\ ~last_resolve.was_reloaded
              /\ last_resolve.latest = last_resolve.refreshed_before.val
              /\ last_resolve.latest # last_resolve.func

\* C18: the implementation a resolve returns for a function is the function
\* itself or the attribute of the function's own module with the function's
\* name, never an implementation of another module.
C18_CacheIsolation ==
    last_resolve.known =>
        \/ last_resolve.latest = last_resolve.func
        \/ /\ last_resolve.latest.module = last_resolve.func.module
           /\ last_resolve.latest.name = last_resolve.func.name

\* C19: with hot-reload enabled, once a module's file was modified and a
\* resolve of one of its functions has reloaded it, the file unmodified since,
\* a resolve of another top-level function of the module returns that
\* function as the reloaded module defines it.
C19_FreshAfterReload ==
    (/\ reload_modules /\ last_resolve.known
     /\ last_resolve.exposed
     /\ last_resolve.mtime > 1 /\ ~last_resolve.newer /\ last_resolve.loaded >= 1
     /\ ~last_resolve.refreshed_before.some) =>
        last_resolve.latest = Function(last_resolve.func.module, last_resolve.func.name,
                                       last_resolve.loaded)

(***************************************************************************)
(* The signature introspector applied to the parameters of one function,   *)
(* lines 664-705.                                                          *)
(***************************************************************************)
\* the introspector and the threads at rest
LaterIdle ==
    /\ signature = <<>>
    /\ inferred = [done |-> FALSE]
    /\ thread_pc = [t \in {1, 2} |-> "idle"]
    /\ handlers = {}
    /\ stdout_tees = <<>>
    /\ buffers = [t \in {1, 2} |-> {}]
    /\ last_event = [kind |-> "none"]

\* the defaults a parameter is declared with: none, None, a plain value, and a
\* StringInput or NumberInput with each combination of its two flags
ParamDefaults ==
    {EmptyDefault, NoneDefault, ValueDefault(IntV(3))}
        \cup {StringInput("a", FALSE, FALSE, o, h) : o \in BOOLEAN, h \in BOOLEAN}
        \cup {NumberInput(3, o, h) : o \in BOOLEAN, h \in BOOLEAN}

\* lines 494-496: the decorator infers the input maps of the function
Infer ==
    /\ ~inferred.done
    /\ inferred' = [done |-> TRUE,
                    maps |-> _infer_input_types_from_annotations(CurrentRegistry, signature)]
    /\ UNCHANGED <<signature, thread_pc, handlers, stdout_tees, buffers, last_event,
                   retryVars, typeVars, regVars, wrapperVars, verifyVars, setterVars,
                   reloadVars>>

(***************************************************************************)
(* Claims about the introspector, checked under SpecIntrospect.            *)
(***************************************************************************)
\* C14: every parameter, not named unique_id or extra_pnginfo, whose default
\* is a StringInput or a NumberInput is in the hidden map if the default's
\* hidden flag is set, and in the optional map if its optional flag is set and
\* its hidden flag is not.
C14_FlagsOverride ==
    inferred.done =>
        \A i \in 1..Len(signature) :
            LET p == signature[i]
            IN  (p.name \notin {"unique_id", "extra_pnginfo"}
                    /\ p.default.kind \in {"StringInput", "NumberInput"}) =>
                   /\ p.default.hidden => p.name \in DOMAIN inferred.maps.hidden_inputs
                   /\ (p.default.optional /\ ~p.default.hidden) =>
                          p.name \in DOMAIN inferred.maps.optional_inputs

(***************************************************************************)
(* Two invocations of _call_function_and_verify_result in different        *)
(* threads, max_tries = 1.  The root logger and sys.stdout are shared by   *)
(* the threads; each invocation has its own buffer.                        *)
(***************************************************************************)
\* as if logging gave a record only to the handler of the emitting thread
LogReceivers_own(t) == handlers \cap {t}

\* logging hands a record of the root logger to every handler attached to it
LogReceivers(t) == handlers

\* lines 385-391: the invocation attaches its BufferHandler to the root logger
AddHandler(t) ==
    /\ thread_pc[t] = "idle"
    /\ thread_pc' = [thread_pc EXCEPT ![t] = "handler"]
    /\ handlers' = handlers \cup {t}
    /\ last_event' = [kind |-> "add", thread |-> t]
    /\ UNCHANGED <<stdout_tees, buffers, signature, inferred, retryVars, typeVars, regVars,
                   wrapperVars, verifyVars, setterVars, reloadVars>>

\* line 392: sys.stdout = Tee(sys.stdout, buffer)
TeeStdout(t) ==
    /\ thread_pc[t] = "handler"
    /\ thread_pc' = [thread_pc EXCEPT ![t] = "running"]
    /\ stdout_tees' = Append(stdout_tees, t)
    /\ last_event' = [kind |-> "tee", thread |-> t]
    /\ UNCHANGED <<handlers, buffers, signature, inferred, retryVars, typeVars, regVars,
                   wrapperVars, verifyVars, setterVars, reloadVars>>

\* line 395: the implementation logs a record through the root logger
EmitLog(t) ==
    /\ thread_pc[t] = "running"
    /\ buffers' = [u \in DOMAIN buffers |->
                      IF u \in LogReceivers(t) THEN buffers[u] \cup {<<t, "log">>}
                      ELSE buffers[u]]
    /\ last_event' = [kind |-> "log", thread |-> t, attached |-> handlers]
    /\ UNCHANGED <<thread_pc, handlers, stdout_tees, signature, inferred, retryVars, typeVars, regVars,
                   wrapperVars, verifyVars, setterVars, reloadVars>>

\* line 395: the implementation writes to sys.stdout; Tee.write (lines 346-348)
\* passes the text down the chain of Tee objects
WriteStdout(t) ==
    /\ thread_pc[t] = "running"
    /\ buffers' = [u \in DOMAIN buffers |->
                      IF \E i \in 1..Len(stdout_tees) : stdout_tees[i] = u
                      THEN buffers[u] \cup {<<t, "stdout">>}
                      ELSE buffers[u]]
    /\ last_event' = [kind |-> "write", thread |-> t]
    /\ UNCHANGED <<thread_pc, handlers, stdout_tees, signature, inferred, retryVars, typeVars, regVars,
                   wrapperVars, verifyVars, setterVars, reloadVars>>

\* lines 434-435: the finally block removes the invocation's handler
RemoveHandler(t) ==
    /\ thread_pc[t] = "running"
    /\ thread_pc' = [thread_pc EXCEPT ![t] = "cleanup"]
    /\ handlers' = handlers \ {t}
    /\ last_event' = [kind |-> "remove", thread |-> t]
    /\ UNCHANGED <<stdout_tees, buffers, signature, inferred, retryVars, typeVars, regVars,
                   wrapperVars, verifyVars, setterVars, reloadVars>>

\* line 436: sys.stdout = sys.__stdout__
ResetStdout(t) ==
    /\ thread_pc[t] = "cleanup"
    /\ thread_pc' = [thread_pc EXCEPT ![t] = "done"]
    /\ stdout_tees' = <<>>
    /\ last_event' = [kind |-> "reset", thread |-> t]
    /\ UNCHANGED <<handlers, buffers, signature, inferred, retryVars, typeVars, regVars,
                   wrapperVars, verifyVars, setterVars, reloadVars>>

ThreadsNext ==
    \/ \E t \in DOMAIN thread_pc : AddHandler(t)
    \/ \E t \in DOMAIN thread_pc : TeeStdout(t)
    \/ \E t \in DOMAIN thread_pc : EmitLog(t)
    \/ \E t \in DOMAIN thread_pc : WriteStdout(t)
    \/ \E t \in DOMAIN thread_pc : RemoveHandler(t)
    \/ \E t \in DOMAIN thread_pc : ResetStdout(t)

(***************************************************************************)
(* Claims about concurrent invocations, checked under SpecThreads.         *)
(***************************************************************************)
\* the buffer of invocation t holds output of the other invocation
ForeignOutput(t) == \E e \in buffers[t] : e[1] # t

\* invocation t is still running and its buffer is no longer in sys.stdout
CaptureEnded(t) ==
    /\ thread_pc[t] = "running"
    /\ \A i \in 1..Len(stdout_tees) : stdout_tees[i] # t

\* C15: log capture is shared by the threads.  A record that one invocation
\* logs is written to the buffer of every invocation whose handler is attached
\* at that moment, the other invocation's included; and when one invocation's
\* cleanup has reset sys.stdout, the buffer of no invocation is in it any more,
\* so that the capture of an invocation still running has ended.
C15_CaptureShared ==
    /\ last_event.kind = "log" =>
          \A u \in last_event.attached : <<last_event.thread, "log">> \in buffers[u]
    /\ last_event.kind = "reset" =>
          \A u \in DOMAIN thread_pc : thread_pc[u] = "running" => CaptureEnded(u)

\* invocation 1 holds a log record of invocation 2, and the cleanup of
\* invocation 1 has ended the capture of invocation 2, which is still running
C15_Witness ==
    /\ <<2, "log">> \in buffers[1]
    /\ ForeignOutput(1)
    /\ last_event.kind = "reset" /\ last_event.thread = 1
    /\ CaptureEnded(2)

(***************************************************************************)
(* The specifications, one per component.                                  *)
(***************************************************************************)
\* the retry loop at rest, for the specifications of the other components
RetryAtRest ==
    /\ max_tries = 1
    /\ process_exception_logic = FALSE
    /\ adjusted_return_types = <<>>
    /\ pc = "idle"
    /\ try_count = 0
    /\ last = [kind |-> "none"]
    /\ outcome = [returned |-> FALSE, exc |-> [type |-> "none"]]
    /\ impl_calls = 0
    /\ impl_raises = 0
    /\ other_fails = 0
    /\ hook_calls = 0
    /\ root_handlers = 0
    /\ sys_stdout = "__stdout__"
    /\ stdout_before = "__stdout__"

\* lines 51, 55, 59: the configuration as the module sets it
RetryIdle == RetryAtRest /\ verify_tensors = TRUE

OthersIdle == WrapperIdle /\ VerifyIdle /\ SetterIdle /\ ReloadIdle /\ LaterIdle

InitRetry == RetryInit /\ TypesInit /\ RegistryInit /\ OthersIdle

SpecRetry == InitRetry /\ [][RetryNext]_vars

InitTypes == TypesInit /\ RetryIdle /\ RegistryInit /\ OthersIdle

SpecTypes == InitTypes /\ [][TypesNext]_vars

TypesInitWithUser ==
    /\ _ANNOTATION_TO_COMFYUI_TYPE = UserRegistry.types
    /\ _SHOULD_AUTOCONVERT = UserRegistry.autoconvert
    /\ _DEFAULT_FORCE_INPUT = UserRegistry.force_input
    /\ first_call = [i \in 1..Len(BuiltinRegistrations) + 1 |->
                        IF i <= Len(BuiltinRegistrations)
                        THEN [key |-> _get_fully_qualified_name(BuiltinRegistrations[i][1]),
                              args |-> CallArgs(BuiltinRegistrations[i][2], FALSE, FALSE)]
                        ELSE [key |-> _get_fully_qualified_name(UserClass(1)),
                              args |-> CallArgs("CUSTOM", TRUE, FALSE)]]
    /\ last_call = [known |-> FALSE, key |-> _get_fully_qualified_name(UserClass(1)),
                    args |-> CallArgs("CUSTOM", TRUE, FALSE)]

InitWrapper ==
    WrapperInit /\ TypesInitWithUser /\ RegistryInit /\ RetryIdle /\ VerifyIdle /\ SetterIdle
        /\ ReloadIdle /\ LaterIdle

SpecWrapper == InitWrapper /\ [][WrapperCall]_vars

InitIntrospect ==
    /\ signature \in
          {<<Param("value", a, d)>> : a \in {ClassAnn(IntClass), ClassAnn(Class("builtins", "str"))},
                                      d \in ParamDefaults}
            \cup {<<Param("value", a, d), Param("unique_id", ClassAnn(Class("builtins", "str")), u)>> :
                     a \in {ClassAnn(IntClass), ClassAnn(Class("builtins", "str"))},
                     d \in ParamDefaults, u \in ParamDefaults}
    /\ inferred = [done |-> FALSE]
    /\ thread_pc = [t \in {1, 2} |-> "idle"]
    /\ handlers = {}
    /\ stdout_tees = <<>>
    /\ buffers = [t \in {1, 2} |-> {}]
    /\ last_event = [kind |-> "none"]
    /\ TypesInit /\ RegistryInit /\ RetryIdle /\ WrapperIdle /\ VerifyIdle /\ SetterIdle
    /\ ReloadIdle

SpecIntrospect == InitIntrospect /\ [][Infer]_vars

InitThreads ==
    LaterIdle /\ TypesInit /\ RegistryInit /\ RetryIdle /\ WrapperIdle /\ VerifyIdle
        /\ SetterIdle /\ ReloadIdle

SpecThreads == InitThreads /\ [][ThreadsNext]_vars

InitVerify ==
    VerifyInit /\ verify_tensors \in BOOLEAN /\ RetryAtRest /\ TypesInit /\ RegistryInit
        /\ WrapperIdle /\ SetterIdle /\ ReloadIdle /\ LaterIdle

SpecVerify == InitVerify /\ [][VerifyNext]_vars

InitSetter ==
    SetterInit /\ TypesInit /\ RegistryInit /\ RetryIdle /\ WrapperIdle /\ VerifyIdle
        /\ ReloadIdle /\ LaterIdle

SpecSetter == InitSetter /\ [][SetterNext]_vars

InitReload ==
    ReloadInit /\ TypesInit /\ RegistryInit /\ RetryIdle /\ WrapperIdle /\ VerifyIdle
        /\ SetterIdle /\ LaterIdle

SpecReload == InitReload /\ [][ReloadNext]_vars

InitRegistry == RegistryInit /\ TypesInit /\ RetryIdle /\ OthersIdle

SpecRegistry == InitRegistry /\ [][RegistryNext]_vars

=============================================================================
